---- MODULE Spec2Model ----
(***************************************************************************)
(* A model of the procedural music engine of music_generator.py:           *)
(* MusicGenerator's tables and pure helpers, generate_melody,              *)
(* the tone cache, and play_song's sequencer (one timing authority,        *)
(* three consumer workers, the host thread).                               *)
(*                                                                         *)
(* Time.  beat_duration = 60/tempo seconds is irrational-free but          *)
(* tempo-dependent, so every duration is kept as an integer number of      *)
(* units of 1/(2*tempo) second: one beat is 120 units for every tempo, one *)
(* step (beat/4) is 30 units, and the literal 1.0 second of the code is    *)
(* 2*tempo units.                                                          *)
(***************************************************************************)
EXTENDS Integers, Sequences, FiniteSets, TLC

\* ------------------------------------------------------------------ bounds
\* sections of the song plan the sequencer model plays (a structure template
\* has 7 or 8; the model plays a prefix of it)
MaxParts == 2
\* the timing authority's clock is read on a grid of this many steps in the
\* full-interleaving specification
SeqGridSteps == 32
\* entries of the tone cache that earlier songs may have left behind are
\* max_cache_size - CacheSlack .. max_cache_size (or none)
CacheSlack == 2
\* distinct synthesis requests (cache keys) of the cache specification
MaxKeys == 3
\* the clock grid of SpecChord, in steps
ChordGridSteps == 6
MelodyGridUnits == 12
OnsetSteps == 7

\* ------------------------------------------------------- program constants
steps_per_beat == 4
beats_per_bar == 4
bars_per_phrase == 4
steps_per_bar == 16
max_cache_size == 1000
\* 60.0 / tempo seconds, in units of 1/(2*tempo) second
beat_duration == 120
\* beat_duration / steps_per_beat
step_duration == beat_duration \div steps_per_beat
total_steps == steps_per_bar * bars_per_phrase
section_duration == total_steps * step_duration
\* the literal 1.0 (seconds) of generate_melody, in units of 1/(2*tempo) s
OneSecond(tempo) == 2 * tempo

Genres == {"electronic", "chill", "funk", "ambient"}

tempo_range(g) ==
  CASE g = "electronic" -> 120..128
    [] g = "chill"      -> 85..100
    [] g = "funk"       -> 100..120
    [] g = "ambient"    -> 70..90

\* note lengths of a genre's note_weights table, in half beats
note_lengths(g) ==
  CASE g = "electronic" -> {2, 4, 8}
    [] g = "chill"      -> {2, 4, 8}
    [] g = "funk"       -> {1, 2, 4}
    [] g = "ambient"    -> {4, 8}

\* genre_info.get('max_interval', 2)
max_interval(g) == 2

harmony_patterns(g) ==
  CASE g = "electronic" ->
         << <<1,0,0,0, 1,0,0,0, 1,0,0,0, 1,0,0,0>>,
            <<1,0,0,0, 0,0,1,0, 0,0,1,0, 0,0,1,0>>,
            <<1,0,1,0, 0,0,1,0, 0,1,0,0, 1,0,0,0>> >>
    [] g = "chill" ->
         << <<1,0,0,0, 0,0,1,0, 0,0,0,0, 1,0,0,0>>,
            <<1,0,0,1, 0,0,1,0, 0,1,0,0, 1,0,0,0>>,
            <<1,0,0,0, 1,0,0,0, 0,0,1,0, 0,0,1,0>> >>
    [] g = "funk" ->
         << <<1,0,1,0, 0,1,0,1, 0,1,0,1, 0,1,0,0>>,
            <<1,0,0,1, 0,1,0,0, 1,0,0,1, 0,1,0,0>>,
            <<1,1,0,1, 0,1,1,0, 1,0,1,0, 1,1,0,0>> >>
    [] g = "ambient" ->
         << <<1,0,0,0, 0,0,0,0, 0,0,1,0, 0,0,0,0>>,
            <<1,0,0,0, 0,0,0,0, 1,0,0,0, 0,0,0,0>>,
            <<1,0,0,0, 0,0,1,0, 0,0,0,0, 0,0,1,0>> >>

\* ------------------------------------------------------------------- notes
\* A note is its index in note_order: C3 = 0, D3 = 1, ..., B5 = 20.
NoNote == -1
C4 == 7
D4 == 8
E4 == 9
F4 == 10
G4 == 11
A4 == 12
B4 == 13
C5 == 14
D5 == 15
E5 == 16
F5 == 17

\* self.notes: frequency of a note, in 1/100 Hz
notes ==
  << 13081, 14683, 16481, 17461, 19600, 22000, 24694,
     26163, 29366, 32963, 34923, 39200, 44000, 49388,
     52325, 58733, 65926, 69846, 78399, 88000, 98777 >>
NoteFreq(n) == notes[n + 1]

scale_degrees(d) ==
  CASE d = 1 -> <<C4, E4, G4>>
    [] d = 2 -> <<D4, F4, A4>>
    [] d = 3 -> <<E4, G4, B4>>
    [] d = 4 -> <<F4, A4, C5>>
    [] d = 5 -> <<G4, B4, D5>>
    [] d = 6 -> <<A4, C5, E5>>
    [] d = 7 -> <<B4, D5, F5>>

\* self.scales['major']
major_scale == <<C4, D4, E4, F4, G4, A4, B4, C5>>

\* the letter of a note name counted from 'A' (ord(name[0]) - ord('A')) and
\* its octave digit
LetterOf(n) == ((n % 7) + 2) % 7
OctaveOf(n) == 3 + (n \div 7)
\* the note named by a letter (counted from 'A') and an octave; names whose
\* octave is not 3..5 are not in self.notes
NoteNamed(letter, octave) == (octave - 3) * 7 + ((letter + 5) % 7)
InNotes(octave) == octave \in 3..5

SeqToSet(s) == { s[i] : i \in 1..Len(s) }

\* get_chord_notes, lines 614-638: the triad by letter arithmetic in the
\* root's octave, each note in the octave below, its own and the one above,
\* filtered to the names self.notes holds.
ChordLetters(root) ==
  << LetterOf(root), (LetterOf(root) + 2) % 7, (LetterOf(root) + 4) % 7 >>
ExtendedNotes(root) ==
  [ k \in 1..9 |->
      [ letter |-> ChordLetters(root)[((k - 1) \div 3) + 1],
        octave |-> OctaveOf(root) + ((k - 1) % 3) - 1 ] ]
ValidNotes(root) ==
  LET ext == ExtendedNotes(root)
      keep == SelectSeq(ext, LAMBDA e : InNotes(e.octave))
  IN  [ k \in 1..Len(keep) |-> NoteNamed(keep[k].letter, keep[k].octave) ]

\* the six voicings of get_chord_notes, lines 641-659, as index triples into
\* valid_notes (0-based in the code)
VoicingIndices ==
  << <<0, 1, 2>>, <<1, 2, 3>>, <<2, 3, 4>>, <<0, 3, 5>>, <<1, 2, 3>>, <<1, 0, 4>> >>
Voicing(root, v) ==
  LET vn == ValidNotes(root)
  IN  [ k \in 1..3 |-> NoteFreq(vn[VoicingIndices[v][k] + 1]) ]
\* the note of the table that has a frequency
NoteOfFreq(f) == CHOOSE n \in 0..20 : NoteFreq(n) = f
\* the letters of the notes of a voicing
VoicingLetters(chord_notes) ==
  { LetterOf(NoteOfFreq(chord_notes[k])) : k \in 1..Len(chord_notes) }
\* the lists random.choices can return when it draws an index of `draws`
\* (all six weights are positive, so it can draw any of 1..6)
get_chord_notes(root, draws) == { Voicing(root, v) : v \in draws }
\* every list get_chord_notes can return for each degree 1..7 of the major
\* scale (the roots of lines 927 and 1098)
ChordVoicings ==
  [ d \in 1..7 |-> get_chord_notes(major_scale[d], DOMAIN VoicingIndices) ]

\* ------------------------------------------------------ get_consonant_notes
\* how many times note n occurs in the list s
RECURSIVE CountIn(_, _)
CountIn(s, n) ==
  IF s = <<>> THEN 0 ELSE (IF s[1] = n THEN 1 ELSE 0) + CountIn(Tail(s), n)
Repeat(n, k) == [ i \in 1..k |-> n ]
\* list.sort(key = note_order): the notes of s in ascending pitch, each as
\* often as it occurs in s
RECURSIVE SortFrom(_, _)
SortFrom(s, n) ==
  IF n > 20 THEN <<>> ELSE Repeat(n, CountIn(s, n)) \o SortFrom(s, n + 1)
SortByPitch(s) == SortFrom(s, 0)

\* list.index(x), 0-based; -1 stands for "not in the list"
RECURSIVE IndexFrom(_, _, _)
IndexFrom(s, x, i) ==
  IF i > Len(s) THEN -1 ELSE IF s[i] = x THEN i - 1 ELSE IndexFrom(s, x, i + 1)
IndexOf(s, x) == IndexFrom(s, x, 1)

NeighbourTones(degree) ==
  LET scale_idx == IndexOf(major_scale, scale_degrees(degree)[1])
  IN  (IF scale_idx > 0 THEN <<major_scale[scale_idx]>> ELSE <<>>)
        \o (IF scale_idx < Len(major_scale) - 1
              THEN <<major_scale[scale_idx + 2]>> ELSE <<>>)
ConsonantNotesOf(degree) ==
  SortByPitch(
    scale_degrees(degree) \o
      (CASE degree = 1 -> <<G4, E4, C5, D4>>
         [] degree = 4 -> <<F4, A4, C5, G4>>
         [] degree = 5 -> <<G4, B4, D5, F4>>
         [] degree = 6 -> <<A4, C5, E4, B4>>
         [] OTHER -> NeighbourTones(degree)))
\* the seven results, computed once
ConsonantTable == [ degree \in 1..7 |-> ConsonantNotesOf(degree) ]
get_consonant_notes(degree) == ConsonantTable[degree]

\* section_progressions: the candidate progressions of a section tag
section_progressions(tag) ==
  CASE tag = "intro"     -> {<<1,4,1,5>>, <<1,6,4,5>>, <<1,1,4,5>>}
    [] tag = "verse"     -> {<<1,6,4,5>>, <<1,4,1,5>>, <<6,4,1,5>>, <<1,3,4,4>>}
    [] tag = "chorus"    -> {<<1,4,6,5>>, <<1,5,6,4>>, <<4,1,5,5>>, <<1,4,1,5>>}
    [] tag = "bridge"    -> {<<4,5,3,6>>, <<6,5,4,5>>, <<2,5,1,6>>, <<4,4,1,5>>}
    [] tag = "outro"     -> {<<1,4,1,1>>, <<1,5,1,1>>, <<4,5,1,1>>}
    [] tag = "buildup"   -> {<<1,5,6,4>>, <<4,5,5,5>>, <<1,1,4,5>>}
    [] tag = "drop"      -> {<<1,5,1,5>>, <<1,4,1,5>>, <<5,1,5,1>>}
    [] tag = "breakdown" -> {<<6,4,1,5>>, <<1,6,4,5>>, <<4,1,5,6>>}
    [] tag = "groove"    -> {<<1,4,5,4>>, <<1,3,4,5>>, <<2,5,1,4>>}
    [] tag = "flow"      -> {<<1,6,4,5>>, <<4,1,6,5>>, <<1,4,6,3>>}
    [] tag = "build"     -> {<<1,3,6,4>>, <<2,5,1,4>>, <<4,5,6,5>>}
    [] tag = "peak"      -> {<<1,5,6,4>>, <<4,1,5,1>>, <<1,4,5,5>>}

\* =========================================================================
\* State
\* =========================================================================
VARIABLES
  \* --- MusicGenerator fields
  current_genre,        \* self.current_genre ("" before the first song)
  tempo,                \* self.tempo (0 stands for None)
  \* --- generate_melody's locals
  gm_pc,                \* "idle" | "loop" | "done"
  progression,          \* the progression generate_melody was called with
  melody,               \* the melody list, kept by what is read of it: the
                        \* sum of its events' durations (in units of
                        \* 1/(2*tempo) s), its first and its last event
  current_beat,         \* in half beats (0.5 beat is the shortest length)
  last_note,
  repeated_notes_count,
  phrase_length         \* in half beats

gm_vars == << gm_pc, progression, melody, current_beat, last_note,
              repeated_notes_count, phrase_length >>

\* =========================================================================
\* play_song: the song plan and the sequencer
\* =========================================================================
drum_patterns(style) ==
  CASE style = "house" ->
         [kick  |-> <<1,0,0,0, 1,0,0,0, 1,0,0,0, 1,0,0,0>>,
          snare |-> <<0,0,0,0, 1,0,0,0, 0,0,0,0, 1,0,0,0>>,
          hihat |-> <<0,0,1,0, 0,0,1,0, 0,0,1,0, 0,0,1,0>>]
    [] style = "tech_house" ->
         [kick  |-> <<1,0,0,0, 1,0,0,0, 1,0,0,0, 1,0,0,0>>,
          snare |-> <<0,0,0,0, 1,0,0,0, 0,0,0,0, 1,0,1,0>>,
          hihat |-> <<1,1,1,1, 1,1,1,1, 1,1,1,1, 1,1,1,1>>]
    [] style = "ambient_minimal" ->
         [kick  |-> <<1,0,0,0, 0,0,0,0, 0,0,0,0, 0,0,0,0>>,
          snare |-> <<0,0,0,0, 0,0,0,0, 0,0,0,0, 0,0,0,0>>,
          hihat |-> <<0,0,1,0, 0,0,0,0, 0,0,1,0, 0,0,0,0>>]
    [] style = "basic" ->
         [kick  |-> <<1,0,0,0, 1,0,0,0, 1,0,0,0, 1,0,0,0>>,
          snare |-> <<0,0,0,0, 1,0,0,0, 0,0,0,0, 1,0,0,0>>,
          hihat |-> <<1,0,1,0, 1,0,1,0, 1,0,1,0, 1,0,1,0>>]
    [] style = "funk" ->
         [kick  |-> <<1,0,0,1, 0,1,0,0, 1,0,0,1, 0,1,0,0>>,
          snare |-> <<0,0,1,0, 1,0,0,1, 0,0,1,0, 1,0,0,1>>,
          hihat |-> <<1,1,0,1, 0,1,1,0, 1,1,0,1, 0,1,1,0>>]
    [] style = "jazz" ->
         [kick  |-> <<1,0,0,0, 0,0,1,0, 0,1,0,0, 0,0,1,0>>,
          snare |-> <<0,0,1,0, 1,0,0,0, 0,0,1,0, 1,0,0,1>>,
          hihat |-> <<1,0,1,1, 1,0,1,1, 1,0,1,1, 1,0,1,1>>]
    [] style = "latin" ->
         [kick  |-> <<1,0,1,0, 0,1,0,0, 1,0,1,0, 0,1,0,0>>,
          snare |-> <<0,0,1,0, 1,0,0,1, 0,0,1,0, 1,0,0,1>>,
          hihat |-> <<1,1,0,1, 1,0,1,1, 1,1,0,1, 1,0,1,1>>]
    [] style = "shuffle" ->
         [kick  |-> <<1,0,0,0, 0,1,0,0, 1,0,0,0, 0,1,0,0>>,
          snare |-> <<0,0,1,0, 0,0,1,0, 0,0,1,0, 0,0,1,1>>,
          hihat |-> <<1,0,1,0, 1,0,1,0, 1,0,1,0, 1,0,1,0>>]
    [] style = "intro_build" ->
         [kick  |-> <<1,0,0,0, 0,0,0,0, 1,0,0,0, 1,0,0,0>>,
          snare |-> <<0,0,0,0, 0,0,0,0, 0,0,0,0, 1,0,0,0>>,
          hihat |-> <<0,0,1,0, 0,1,1,0, 1,1,1,0, 1,1,1,1>>]
    [] style = "intro_build_2" ->
         [kick  |-> <<1,0,0,0, 1,0,0,0, 1,0,1,0, 1,1,1,0>>,
          snare |-> <<0,0,0,0, 1,0,0,0, 0,0,1,0, 1,0,1,1>>,
          hihat |-> <<1,0,1,0, 1,1,1,0, 1,1,1,1, 1,1,1,1>>]
    [] style = "outro_wind_down" ->
         [kick  |-> <<1,1,1,0, 1,0,1,0, 1,0,0,0, 0,0,0,0>>,
          snare |-> <<1,0,1,1, 0,0,1,0, 0,0,0,0, 1,0,0,0>>,
          hihat |-> <<1,1,1,1, 1,1,1,0, 1,0,1,0, 0,0,0,0>>]
    [] style = "outro_final" ->
         [kick  |-> <<1,0,0,0, 0,0,0,0, 1,0,0,0, 1,0,0,1>>,
          snare |-> <<0,0,0,0, 1,0,0,0, 0,0,0,0, 0,0,0,1>>,
          hihat |-> <<1,0,1,0, 0,0,1,0, 0,0,0,0, 0,0,0,1>>]

drum_styles(g) ==
  CASE g = "electronic" -> {"house", "tech_house"}
    [] g = "chill"      -> {"basic", "jazz", "shuffle"}
    [] g = "funk"       -> {"funk", "latin"}
    [] g = "ambient"    -> {"ambient_minimal"}

\* self.genres[g]['structures']
structures(g) ==
  CASE g = "electronic" ->
         { <<"intro","verse","buildup","drop","breakdown","drop","outro">>,
           <<"intro","verse","drop","verse","drop","breakdown","drop","outro">> }
    [] g = "chill" ->
         { <<"intro","verse","chorus","verse","chorus","bridge","chorus","outro">>,
           <<"intro","verse","verse","chorus","bridge","chorus","outro">> }
    [] g = "funk" ->
         { <<"intro","groove","verse","groove","bridge","groove","outro">>,
           <<"intro","groove","verse","bridge","groove","verse","groove","outro">> }
    [] g = "ambient" ->
         { <<"intro","flow","build","flow","peak","flow","outro">>,
           <<"intro","flow","flow","build","peak","flow","outro">> }

\* self.section_drums, for the tags generate_song_structure reads it for
section_drums(tag) ==
  CASE tag = "intro" -> <<"intro_build", "intro_build_2">>
    [] tag = "outro" -> <<"outro_wind_down", "outro_final">>

DrumTypes == {"kick", "snare", "hihat"}

\* A Sound object, named by what it was synthesized from (the cache key of a
\* tone; a drum sound has only its kind). dur is in units of 1/(2*tempo) s.
Sound(kind, freq, dur, t, amp, g) ==
  [kind |-> kind, freq |-> freq, dur |-> dur, tempo |-> t, amp |-> amp, genre |-> g]
DrumSound(type, t, g) == Sound(type, 0, 0, t, 0, g)
\* cache_key of generate_melody_tone (amplitude defaults to 4096)
MelodyKey(freq, dur, t, g) == Sound("melody", freq, dur, t, 4096, g)
\* cache_key of generate_harmony_tone (the key holds no genre)
HarmonyKey(freq, dur, t, amp) == Sound("harmony", freq, dur, t, amp, "")

VARIABLES
  \* --- MusicGenerator fields and the mixer
  mixer_ok,             \* pygame.mixer.get_init() is not None
  tone_cache,           \* self.tone_cache: cache key -> Sound
  drum_sounds,          \* the drum types self.drum_sounds holds a Sound for
  channels,             \* the mixer's busy channels: the Sound each plays and
                        \* the section (index into song_parts) whose step
                        \* triggered it
  \* --- play_song's locals, shared by its closures
  host_pc,              \* where the thread that called play_song is
  song_parts,
  start_event,
  stop_event,
  current_step,
  current_part_index,   \* 0-based, as in the code
  current_part,         \* index into song_parts (1-based); 0 stands for None
  current_elapsed,
  state_lock,           \* the thread holding state_lock, or "free"
  current_section_sounds,
  \* --- the workers
  pc,                   \* pc[w] for w in Workers
  elapsed_in_section,   \* update_playback_state: the last clock reading,
                        \* relative to section_start_time
  last_step,            \* last_step of play_melody_part and play_drum_part
  last_chord_step,
  last_voicing,         \* <<>> stands for None
  current_pattern,      \* index into harmony_patterns[genre]; 0 stands for None
  pending,              \* the sounds the consumer holding state_lock is about
                        \* to hand to play_sound, and the part it read
  \* --- a call of generate_melody_tone / generate_harmony_tone in progress
  tone_call,            \* per calling thread: where the call is and its key
  \* --- history (not program state): what the claims speak of
  last_trigger,         \* per consumer, the <<part, step>> of its last
                        \* iteration that went on to play sounds
  pattern_section,      \* the part that was current when the harmony
                        \* worker last chose current_pattern
  melody_fired          \* the part and the events (their indices in the
                        \* part's melody) of the melody worker's last
                        \* iteration that played tones

seq_vars == << mixer_ok, tone_cache, drum_sounds, channels, host_pc, song_parts,
               start_event, stop_event, current_step, current_part_index,
               current_part, current_elapsed, state_lock, current_section_sounds,
               pc, elapsed_in_section, last_step, last_chord_step, last_voicing,
               current_pattern, pending, last_trigger, pattern_section,
               melody_fired >>

VARIABLES
  \* --- volume state of the MusicGenerator and of the mixer's channels
  volume,               \* self.volume, in hundredths
  is_muted,             \* self.is_muted
  chan,                 \* per mixer channel: busy (a sound is playing on it)
                        \* and vol, the channel's volume in hundredths
  ps_pc,                \* where the worker's self.play_sound call is
  ps_chan               \* the channel find_channel gave that call; 0 for none

vol_vars == << volume, is_muted, chan, ps_pc, ps_chan >>

VARIABLES
  \* --- the durations play_song computes from the tempo, in seconds, each a
  \* fraction <<numerator, denominator>>
  song_timing           \* beat: self.beat_duration, self_step:
                        \* self.step_duration, step and section: the locals
                        \* step_duration and section_duration

vars == << current_genre, tempo, gm_vars, seq_vars, tone_call, vol_vars,
           song_timing >>

\* ------------------------------------------------- the durations in seconds
Fraction(n, d) == << n, d >>
\* q / n and n * q for a whole number n, as the code computes them (a float
\* division or multiplication by a power of two is exact)
FractionOver(q, n) == << q[1], q[2] * n >>
FractionTimes(n, q) == << n * q[1], q[2] >>
SameFraction(a, b) == a[1] * b[2] = b[1] * a[2]
NotComputed == Fraction(0, 1)
NoTiming ==
  [ beat |-> NotComputed, self_step |-> NotComputed,
    step |-> NotComputed, section |-> NotComputed ]
\* line 889: self.beat_duration = 60.0 / self.tempo
BeatSeconds(t) == FractionOver(Fraction(60, 1), t)
\* line 890: self.step_duration = self.beat_duration / self.steps_per_beat
SelfStepSeconds(beat) == FractionOver(beat, steps_per_beat)
\* a step that is a sixteenth of a beat (C18 is compared against it)
StepSeconds_PerBar(beat) == FractionOver(beat, steps_per_bar)
\* line 935: step_duration = self.beat_duration / 4
StepSeconds(beat) == FractionOver(beat, 4)
\* lines 934 and 936: section_duration = total_steps * step_duration
SectionSeconds(step) == FractionTimes(total_steps, step)
\* all four for a tempo
SongTiming(t) ==
  [ beat |-> BeatSeconds(t), self_step |-> SelfStepSeconds(BeatSeconds(t)),
    step |-> StepSeconds(BeatSeconds(t)),
    section |-> SectionSeconds(StepSeconds(BeatSeconds(t))) ]

Consumers == {"melody", "chord", "drum"}
Workers == {"timing"} \cup Consumers
NoPending == [part |-> 0, sounds |-> {}]
NoneFired == [part |-> 0, events |-> {}]

\* ----------------------------------------------------------- generate_melody
\* total_beats = beats_per_bar * bars_per_phrase, in half beats
total_beats == 2 * beats_per_bar * bars_per_phrase
\* one beat, in half beats
OneBeat == 2

NoEvent == [note |-> NoNote, dur |-> 0]
EmptyMelody == [seconds |-> 0, first |-> NoEvent, last |-> NoEvent]
\* melody.append((note, dur))
Append_melody(m, note, dur) ==
  [ seconds |-> m.seconds + dur,
    first   |-> IF m.first = NoEvent THEN [note |-> note, dur |-> dur] ELSE m.first,
    last    |-> [note |-> note, dur |-> dur] ]

\* the duration generate_melody gives its first note: the literal 1.0
FirstNoteDuration(t) == OneSecond(t)
\* the duration generate_melody gives a rest: rest_length = 1.0, appended as is
RestDuration(t) == OneSecond(t)
\* the duration of a note of `length` half beats: length * self.beat_duration
NoteDuration(length) == length * (beat_duration \div OneBeat)

\* the chord generate_melody treats as current at a beat (lines 741-745)
ChordIndexAt(prog, beat) ==
  LET chord_index == (beat * Len(prog)) \div total_beats
  IN  IF chord_index >= Len(prog) THEN Len(prog) - 1 ELSE chord_index
CurrentChord(prog, beat) == prog[ChordIndexAt(prog, beat) + 1]

\* the indices random.choices can return at lines 757-787: every index of the
\* consonant set within max_interval of current_idx (every weight is > 0)
PossibleIndices(consonant_notes, current_idx, g) ==
  { i \in 0..(Len(consonant_notes) - 1) :
      (IF i >= current_idx THEN i - current_idx ELSE current_idx - i)
        <= max_interval(g) }

\* the lengths the note-length draw of lines 794-798 can return, in half beats
LengthChoices(beat, g) ==
  IF beat % (4 * OneBeat) = 0 THEN {2, 4} ELSE note_lengths(g)
\* lines 801-802
ClipLength(beat, length) ==
  IF beat + length > total_beats THEN total_beats - beat ELSE length

\* generate_melody, lines 706-730: the first note
GM_Start ==
  /\ gm_pc = "idle"
  /\ LET consonant_notes == get_consonant_notes(progression[1])
         first_note == consonant_notes[(Len(consonant_notes) \div 2) + 1]
     IN  /\ melody' = Append_melody(EmptyMelody, first_note, FirstNoteDuration(tempo))
         /\ last_note' = first_note
  /\ current_beat' = OneBeat
  /\ repeated_notes_count' = 0
  /\ phrase_length' = 0
  /\ gm_pc' = "loop"
  /\ UNCHANGED << song_timing, vol_vars, current_genre, tempo, progression, seq_vars, tone_call >>

\* lines 734-739: a rest (random.random() < rest_chance, every genre's
\* rest_chance is > 0)
GM_Rest ==
  /\ gm_pc = "loop"
  /\ current_beat < total_beats
  /\ phrase_length >= 4 * OneBeat
  /\ melody' = Append_melody(melody, NoNote, RestDuration(tempo))
  /\ current_beat' = current_beat + OneBeat
  /\ phrase_length' = 0
  /\ UNCHANGED << song_timing, vol_vars, current_genre, tempo, progression, gm_pc, last_note,
                  repeated_notes_count, seq_vars, tone_call >>

\* lines 741-807: a note, repeated or drawn by the weighted choice
GM_Note ==
  /\ gm_pc = "loop"
  /\ current_beat < total_beats
  /\ LET current_chord == CurrentChord(progression, current_beat)
         consonant_notes == get_consonant_notes(current_chord)
         current_idx == IndexOf(consonant_notes, last_note)
     IN  \E repeat \in BOOLEAN :
           \E chosen_idx \in PossibleIndices(consonant_notes, current_idx, current_genre) :
             \E drawn \in LengthChoices(current_beat, current_genre) :
               LET note == IF repeat THEN last_note ELSE consonant_notes[chosen_idx + 1]
                   length == ClipLength(current_beat, drawn)
               IN  /\ repeat => repeated_notes_count < 2
                   /\ repeated_notes_count' =
                        IF repeat THEN repeated_notes_count + 1 ELSE 0
                   /\ melody' = Append_melody(melody, note, NoteDuration(length))
                   /\ current_beat' = current_beat + length
                   /\ phrase_length' = phrase_length + length
                   /\ last_note' = note
  /\ UNCHANGED << song_timing, vol_vars, current_genre, tempo, progression, gm_pc, seq_vars, tone_call >>

\* line 732 (loop exit) and 809
GM_Return ==
  /\ gm_pc = "loop"
  /\ current_beat >= total_beats
  /\ gm_pc' = "done"
  /\ UNCHANGED << song_timing, vol_vars, current_genre, tempo, progression, melody, current_beat,
                  last_note, repeated_notes_count, phrase_length, seq_vars,
                  tone_call >>

\* ------------------------------------------------------------ the tone cache
CacheLen(cache) == Cardinality(DOMAIN cache)
\* lines 429-430 / 509-510 and 496-497 / 537-538: whole calls of generate_melody_tone / generate_harmony_tone that no other
\* caller overlaps, for keys[1], keys[2], ... in turn: a key is stored at its
\* first request if fewer than max_cache_size entries are held then
CacheAfterCalls(cache, keys) ==
  LET fresh == { i \in 1..Len(keys) :
                   /\ keys[i] \notin DOMAIN cache
                   /\ \A j \in 1..(i - 1) : keys[j] # keys[i] }
      stored == { i \in fresh :
                    CacheLen(cache) + Cardinality({ j \in fresh : j < i })
                      < max_cache_size }
  IN  [ k \in DOMAIN cache \cup { keys[i] : i \in stored } |->
          IF k \in DOMAIN cache THEN cache[k] ELSE k ]

\* generate_melody_tone (lines 428-499) and generate_harmony_tone (lines
\* 508-540) step by step, for callers that may overlap: the lookup, the
\* synthesis, the size test and the insertion are separate steps and no lock
\* is held across them.
Callers == {"host", "chord"}
NoCall == [at |-> "idle", key |-> Sound("", 0, 0, 0, 0, "")]
\* the requests of the callers: the pre-render of play_song (lines 914 and
\* 930) on the music thread, and the harmony worker (line 1113)
CallTempo == CHOOSE t \in tempo_range("chill") : \A u \in tempo_range("chill") : t <= u
CallKeys(th) ==
  IF th = "host"
    THEN { MelodyKey(notes[k], beat_duration, CallTempo, "chill") : k \in 1..MaxKeys }
           \cup { HarmonyKey(notes[k], beat_duration * 2, CallTempo, 4096) : k \in 1..MaxKeys }
    ELSE { HarmonyKey(notes[k], beat_duration * 2, CallTempo, 1536) : k \in 1..MaxKeys }
\* entries earlier songs left in the cache: n keys no caller asks for again
EarlierKeys(n) == { MelodyKey(i, beat_duration, CallTempo, "ambient") : i \in 1..n }

\* the call is made
Tone_Call(th) ==
  /\ tone_call[th].at = "idle"
  /\ mixer_ok
  /\ \E key \in CallKeys(th) :
       tone_call' = [tone_call EXCEPT ![th] = [at |-> "lookup", key |-> key]]
  /\ UNCHANGED << song_timing, vol_vars, current_genre, tempo, gm_vars, seq_vars >>

\* lines 429-430 / 509-510: a cached sound is returned, else the tone is
\* synthesized
Tone_Lookup(th) ==
  /\ tone_call[th].at = "lookup"
  /\ tone_call' =
       IF tone_call[th].key \in DOMAIN tone_cache
         THEN [tone_call EXCEPT ![th] = NoCall]
         ELSE [tone_call EXCEPT ![th].at = "synthesized"]
  /\ UNCHANGED << song_timing, vol_vars, current_genre, tempo, gm_vars, seq_vars >>

\* line 496 / 537: len(self.tone_cache) < self.max_cache_size
Tone_CheckSize(th) ==
  /\ tone_call[th].at = "synthesized"
  /\ tone_call' =
       IF CacheLen(tone_cache) < max_cache_size
         THEN [tone_call EXCEPT ![th].at = "store"]
         ELSE [tone_call EXCEPT ![th] = NoCall]
  /\ UNCHANGED << song_timing, vol_vars, current_genre, tempo, gm_vars, seq_vars >>

\* a store that makes room by dropping an entry (C28 is compared against it)
Tone_Store_Evict(th) ==
  /\ tone_call[th].at = "store"
  /\ tone_cache' =
       IF tone_cache = << >>
         THEN (tone_call[th].key :> tone_call[th].key)
         ELSE LET old == CHOOSE k \in DOMAIN tone_cache : TRUE
              IN  (tone_call[th].key :> tone_call[th].key)
                    @@ [ k \in DOMAIN tone_cache \ {old} |-> tone_cache[k] ]
  /\ tone_call' = [tone_call EXCEPT ![th] = NoCall]
  /\ UNCHANGED << melody_fired, song_timing, vol_vars, current_genre, tempo, gm_vars, mixer_ok, drum_sounds, channels,
                  host_pc, song_parts, start_event, stop_event, current_step,
                  current_part_index, current_part, current_elapsed, state_lock,
                  current_section_sounds, pc, elapsed_in_section, last_step,
                  last_chord_step, last_voicing, current_pattern, pending,
                  last_trigger, pattern_section >>

\* line 497 / 538: self.tone_cache[cache_key] = sound, and the return
Tone_Store(th) ==
  /\ tone_call[th].at = "store"
  /\ tone_cache' = (tone_call[th].key :> tone_call[th].key) @@ tone_cache
  /\ tone_call' = [tone_call EXCEPT ![th] = NoCall]
  /\ UNCHANGED << melody_fired, song_timing, vol_vars, current_genre, tempo, gm_vars, mixer_ok, drum_sounds, channels,
                  host_pc, song_parts, start_event, stop_event, current_step,
                  current_part_index, current_part, current_elapsed, state_lock,
                  current_section_sounds, pc, elapsed_in_section, last_step,
                  last_chord_step, last_voicing, current_pattern, pending,
                  last_trigger, pattern_section >>

\* ------------------------------------------------------------- the song plan
\* One run of generate_melody, as the list of its events: the run that never
\* rests or repeats and always draws the lowest index and the shortest length
\* the code allows. The sequencer model plays this melody.
RECURSIVE MelodyRun(_, _, _, _, _)
MelodyRun(prog, g, beat, last, acc) ==
  IF beat >= total_beats THEN acc
  ELSE LET consonant_notes == get_consonant_notes(CurrentChord(prog, beat))
           current_idx == IndexOf(consonant_notes, last)
           idxs == PossibleIndices(consonant_notes, current_idx, g)
           chosen_idx == CHOOSE i \in idxs : \A j \in idxs : i <= j
           lens == LengthChoices(beat, g)
           drawn == CHOOSE l \in lens : \A m \in lens : l <= m
           length == ClipLength(beat, drawn)
           note == consonant_notes[chosen_idx + 1]
       IN  MelodyRun(prog, g, beat + length, note,
                     Append(acc, [note |-> note, dur |-> NoteDuration(length)]))
SampleMelody(prog, g, t) ==
  LET consonant_notes == get_consonant_notes(prog[1])
      first_note == consonant_notes[(Len(consonant_notes) \div 2) + 1]
  IN  MelodyRun(prog, g, OneBeat, first_note,
                << [note |-> first_note, dur |-> FirstNoteDuration(t)] >>)

\* melody_timings of lines 905-920: the onset of each event
RECURSIVE Onsets(_, _)
Onsets(mel, start) ==
  IF mel = <<>> THEN <<>> ELSE <<start>> \o Onsets(Tail(mel), start + mel[1].dur)
melody_timings(mel) == Onsets(mel, 0)

\* generate_song_structure, lines 843-863, for the first n tags of a
\* structure: the drum style of the k-th section
DrumStyleOf(structure, k, style) ==
  LET tag == structure[k]
      count == Cardinality({ j \in 1..k : structure[j] = tag })
  IN  IF tag \in {"intro", "outro"}
        THEN LET pattern_index ==
                   IF count - 1 < Len(section_drums(tag)) - 1
                     THEN count - 1 ELSE Len(section_drums(tag)) - 1
             IN  section_drums(tag)[pattern_index + 1]
        ELSE style[tag]

\* the tags of the sections the model plays
PlanTags(structure) == SeqToSet(SubSeq(structure, 1, MaxParts))
\* a plan whose sections all carry one tag (C16 is compared against it)
SectionPlan_OneTag(tag, prog, g, t, style) ==
  [ section |-> "intro", progression |-> prog,
    melody |-> SampleMelody(prog, g, t), drums |-> drum_patterns(style) ]
\* one section of the plan (lines 858-863)
SectionPlan(tag, prog, g, t, style) ==
  [ section |-> tag, progression |-> prog,
    melody |-> SampleMelody(prog, g, t), drums |-> drum_patterns(style) ]

\* the cache keys the pre-render of lines 905-930 asks for, in order: every
\* melody note of every part, then three harmony tones for each degree
MelodyKeysOf(mel, g, t) ==
  LET sounding_events == SelectSeq(mel, LAMBDA e : e.note # NoNote)
  IN  [ i \in 1..Len(sounding_events) |->
          MelodyKey(NoteFreq(sounding_events[i].note), sounding_events[i].dur, t, g) ]
RECURSIVE PartsMelodyKeys(_, _, _)
PartsMelodyKeys(parts, g, t) ==
  IF parts = <<>> THEN <<>>
  ELSE MelodyKeysOf(parts[1].melody, g, t) \o PartsMelodyKeys(Tail(parts), g, t)
HarmonyPrerenderKeys(voicing_of, t) ==
  [ i \in 1..21 |->
      LET chord_degree == ((i - 1) \div 3) + 1
          chord_notes == Voicing(major_scale[chord_degree], voicing_of[chord_degree])
      IN  HarmonyKey(chord_notes[((i - 1) % 3) + 1], beat_duration * 2, t, 4096) ]

\* The draws the sequencer specifications explore: one genre at its fastest
\* tempo, the progressions of a tag that go to IV second, two of the six
\* voicings and two of the three harmony patterns.
SeqGenres == {"ambient"}
SeqTempos(g) == { t \in tempo_range(g) : \A u \in tempo_range(g) : t >= u }
SeqProgs(tag) == { p \in section_progressions(tag) : p[2] = 4 }
SeqVoicings == {1, 2}
SeqPatterns == {1, 2}

\* -------------------------------------------------------------- play_song
\* lines 882-1164, with the mixer available: the genre, the tempo, the drum
\* sounds, the plan, the pre-render, the shared locals and the four threads
\* (started, the consumers waiting on start_event). G and V bound two of the
\* random draws: the genres, and the voicing index drawn for the pre-render.
PlaySong_Compose(G, V) ==
  /\ host_pc = "idle"
  /\ mixer_ok
  /\ \E g \in G : \E t \in SeqTempos(g) : \E structure \in structures(g) :
       \E prog \in [ PlanTags(structure) -> UNION { SeqProgs(tag) : tag \in PlanTags(structure) } ] :
       \E style \in [ PlanTags(structure) -> drum_styles(g) ] :
       \E v \in V :
         /\ \A tag \in DOMAIN prog : prog[tag] \in SeqProgs(tag)
         /\ current_genre' = g
         /\ tempo' = t
         /\ song_timing' = SongTiming(t)
         /\ drum_sounds' = DrumTypes
         /\ song_parts' =
              [ k \in 1..MaxParts |->
                  SectionPlan(structure[k], prog[structure[k]], g, t,
                              DrumStyleOf(structure, k, style)) ]
         /\ tone_cache' =
              CacheAfterCalls(tone_cache,
                PartsMelodyKeys(song_parts', g, t)
                  \o HarmonyPrerenderKeys([ d \in 1..7 |-> v ], t))
  /\ start_event' = FALSE
  /\ stop_event' = FALSE
  /\ current_step' = 0
  /\ current_part_index' = 0
  /\ current_part' = 0
  /\ current_elapsed' = 0
  /\ state_lock' = "free"
  /\ current_section_sounds' = {}
  /\ elapsed_in_section' = 0
  /\ last_step' = [ w \in {"melody", "drum"} |-> -1 ]
  /\ last_chord_step' = -1
  /\ last_voicing' = <<>>
  /\ current_pattern' = 0
  /\ pending' = NoPending
  /\ last_trigger' = [ w \in Consumers |-> <<0, -1>> ]
  /\ pattern_section' = 0
  /\ melody_fired' = NoneFired
  /\ pc' = [ w \in Workers |-> IF w = "timing" THEN "loop" ELSE "wait" ]
  /\ host_pc' = "started"
  /\ UNCHANGED << vol_vars, mixer_ok, channels, gm_vars, tone_call >>

\* The same call with the mixer unavailable: generate_drum_sound (line 897,
\* the first synthesis call) has no mixer check and no handler of its own, so
\* pygame.sndarray.make_sound's error is raised into play_song's try block
\* and play_song's handler (line 1183) runs.
PlaySong_ComposeFails ==
  /\ host_pc = "idle"
  /\ ~mixer_ok
  /\ host_pc' = "synthesis_error"
  /\ UNCHANGED << melody_fired, song_timing, vol_vars, current_genre, tempo, gm_vars, tone_call, mixer_ok, tone_cache, drum_sounds,
                  channels, song_parts, start_event, stop_event, current_step,
                  current_part_index, current_part, current_elapsed, state_lock,
                  current_section_sounds, pc, elapsed_in_section, last_step,
                  last_chord_step, last_voicing, current_pattern, pending,
                  last_trigger, pattern_section >>

\* ------------------------------------------------- sound management closures
\* self.play_sound (lines 867-878) then lines 977-979, for each of `sounds`:
\* with the mixer available a channel plays the sound and the sound is
\* registered; without it nothing is played or registered.
ChannelsAfterPlay(chans, sounds, part) ==
  IF mixer_ok THEN chans \cup { [sound |-> snd, part |-> part] : snd \in sounds }
  ELSE chans
RegisteredAfterPlay(registered, sounds) ==
  IF mixer_ok THEN registered \cup sounds ELSE registered
\* Sound.stop() on every sound of `sounds`: every channel playing one of them
\* stops (a Sound.stop() without the mixer raises, and the handler of line
\* 969 passes)
ChannelsAfterStop(chans, sounds) ==
  IF mixer_ok THEN { c \in chans : c.sound \notin sounds } ELSE chans

\* ------------------------------------------- update_playback_state (timing)
\* the clock readings of a section on a grid of `grid` units, from the last
\* reading on; every reading past the section's end acts as section_duration
ClockReadings(grid, from) ==
  { e \in from..section_duration : e % grid = 0 \/ e = section_duration }

\* lines 1026-1027: next_step_time = section_start_time + (current_step *
\* step_duration); wait_time = next_step_time - current_time, with the times
\* counted from section_start_time
WaitTime(step, elapsed) == (step * step_duration) - elapsed

\* lines 999-1001 and 1019-1031: a cycle inside the section. The shared state
\* is written under state_lock. wait_time = section_start_time + current_step
\* * step_duration - current_time is never positive, so the cycle does not
\* sleep; cleanup_finished_sounds stops nothing (find_channel(True) always
\* returns a channel).
Timing_UpdateAt(readings) ==
  /\ pc["timing"] = "loop"
  /\ ~stop_event
  /\ current_part_index < Len(song_parts)
  /\ state_lock = "free"
  /\ \E e \in readings :
       /\ e < section_duration
       /\ elapsed_in_section' = e
       /\ current_step' = e \div step_duration
       /\ current_part' = current_part_index + 1
       /\ current_elapsed' = e
  /\ UNCHANGED << melody_fired, song_timing, vol_vars, current_genre, tempo, gm_vars, tone_call, mixer_ok, tone_cache, drum_sounds,
                  channels, host_pc, song_parts, start_event, stop_event,
                  current_part_index, state_lock, current_section_sounds, pc,
                  last_step, last_chord_step, last_voicing, current_pattern,
                  pending, last_trigger, pattern_section >>

\* the cycle with the clock read on a grid of `grid` units
Timing_Update(grid) == Timing_UpdateAt(ClockReadings(grid, elapsed_in_section))

\* the clock readings that follow the steps finely (every MelodyGridUnits
\* units) during the first OnsetSteps steps of a section and coarsely (every
\* SeqGridSteps steps) after them
OnsetReadings(from) ==
  { e \in ClockReadings(MelodyGridUnits, from) :
      \/ e < OnsetSteps * step_duration
      \/ e % (SeqGridSteps * step_duration) = 0
      \/ e = section_duration }

\* lines 1003-1004 and 963-970: the section is over; stop_all_section_sounds
\* stops and removes every sound of its copy of the set. state_lock is not
\* taken.
Timing_StopSectionSounds ==
  /\ pc["timing"] = "loop"
  /\ ~stop_event
  /\ current_part_index < Len(song_parts)
  /\ elapsed_in_section' = section_duration
  /\ channels' = ChannelsAfterStop(channels, current_section_sounds)
  /\ current_section_sounds' = IF mixer_ok THEN {} ELSE current_section_sounds
  /\ pc' = [pc EXCEPT !["timing"] = "clear"]
  /\ UNCHANGED << melody_fired, song_timing, vol_vars, current_genre, tempo, gm_vars, tone_call, mixer_ok, tone_cache, drum_sounds,
                  host_pc, song_parts, start_event, stop_event, current_step,
                  current_part_index, current_part, current_elapsed, state_lock,
                  last_step, last_chord_step, last_voicing, current_pattern,
                  pending, last_trigger, pattern_section >>

\* an increment that does not count (C26 is compared against it)
NextPartIndex_Stay(i) == i
\* an increment that would pass over a section (C8 is compared against it)
NextPartIndex_Skip(i) == i + 2
\* line 1005: current_part_index += 1
NextPartIndex(i) == i + 1

\* line 971 (current_section_sounds.clear()) and line 1005
Timing_ClearAndCount ==
  /\ pc["timing"] = "clear"
  /\ current_section_sounds' = {}
  /\ current_part_index' = NextPartIndex(current_part_index)
  /\ pc' = [pc EXCEPT !["timing"] = "advance"]
  /\ UNCHANGED << melody_fired, song_timing, vol_vars, current_genre, tempo, gm_vars, tone_call, mixer_ok, tone_cache, drum_sounds,
                  channels, host_pc, song_parts, start_event, stop_event,
                  current_step, current_part, current_elapsed, state_lock,
                  elapsed_in_section, last_step, last_chord_step, last_voicing,
                  current_pattern, pending,
                  last_trigger, pattern_section >>

\* lines 1006-1012 and 1017: the next section becomes current, under state_lock
Timing_NextSection ==
  /\ pc["timing"] = "advance"
  /\ current_part_index < Len(song_parts)
  /\ state_lock = "free"
  /\ elapsed_in_section' = 0
  /\ current_part' = current_part_index + 1
  /\ current_step' = 0
  /\ current_elapsed' = 0
  /\ pc' = [pc EXCEPT !["timing"] = "loop"]
  /\ UNCHANGED << melody_fired, song_timing, vol_vars, current_genre, tempo, gm_vars, tone_call, mixer_ok, tone_cache, drum_sounds,
                  channels, host_pc, song_parts, start_event, stop_event,
                  current_part_index, state_lock, current_section_sounds,
                  last_step, last_chord_step, last_voicing, current_pattern,
                  pending, last_trigger, pattern_section >>

\* lines 1013-1016: no section is left; the song is finished
Timing_Finish ==
  /\ pc["timing"] = "advance"
  /\ current_part_index >= Len(song_parts)
  /\ stop_event' = TRUE
  /\ pc' = [pc EXCEPT !["timing"] = "done"]
  /\ UNCHANGED << melody_fired, song_timing, vol_vars, current_genre, tempo, gm_vars, tone_call, mixer_ok, tone_cache, drum_sounds,
                  channels, host_pc, song_parts, start_event, current_step,
                  current_part_index, current_part, current_elapsed, state_lock,
                  current_section_sounds, elapsed_in_section, last_step,
                  last_chord_step, last_voicing, current_pattern, pending,
                  last_trigger, pattern_section >>

\* (line 999's loop condition is in the guards above: stop_event is a local
\* of play_song that only Timing_Finish sets, so the loop is never left
\* through its condition.)

\* --------------------------------------------------------- consumer workers
\* line 1035 / 1063 / 1125: start_event.wait() returns
Consumer_Start(w) ==
  /\ pc[w] = "wait"
  /\ start_event
  /\ pc' = [pc EXCEPT ![w] = "loop"]
  /\ UNCHANGED << melody_fired, song_timing, vol_vars, current_genre, tempo, gm_vars, tone_call, mixer_ok, tone_cache, drum_sounds,
                  channels, host_pc, song_parts, start_event, stop_event,
                  current_step, current_part_index, current_part, current_elapsed,
                  state_lock, current_section_sounds, elapsed_in_section,
                  last_step, last_chord_step, last_voicing, current_pattern,
                  pending, last_trigger, pattern_section >>

\* a loop condition that does not look at the stop signal (C13 is compared
\* against it)
LoopCondition_Ignored(stop) == TRUE
\* line 1038 / 1069 / 1128: while not stop_event.is_set()
LoopCondition(stop) == ~stop

\* line 1038 / 1069 / 1128: the loop condition fails
Consumer_Exit(w) ==
  /\ pc[w] = "loop"
  /\ ~LoopCondition(stop_event)
  /\ pc' = [pc EXCEPT ![w] = "done"]
  /\ UNCHANGED << melody_fired, song_timing, vol_vars, current_genre, tempo, gm_vars, tone_call, mixer_ok, tone_cache, drum_sounds,
                  channels, host_pc, song_parts, start_event, stop_event,
                  current_step, current_part_index, current_part, current_elapsed,
                  state_lock, current_section_sounds, elapsed_in_section,
                  last_step, last_chord_step, last_voicing, current_pattern,
                  pending, last_trigger, pattern_section >>

\* a read that moves the transport on by a step (C27 is compared against it)
ReadStep_Advance(step) == step + 1
\* line 1045 / 1074 / 1134: step = current_step, a read into a local of the
\* worker (no consumer declares the transport nonlocal); the shared value
\* after it
ReadStep(step) == step

\* what an iteration that read the shared state does next: with sounds to
\* play it keeps state_lock and goes on to play_sound, with none it releases
\* the lock and sleeps
AfterRead(w, part, sounds) ==
  IF sounds = {}
    THEN /\ pending' = pending
         /\ state_lock' = state_lock
         /\ pc' = pc
         /\ last_trigger' = last_trigger
    ELSE /\ pending' = [part |-> part, sounds |-> sounds]
         /\ state_lock' = w
         /\ pc' = [pc EXCEPT ![w] = "play"]
         /\ last_trigger' = [last_trigger EXCEPT ![w] = <<part, current_step>>]

\* lines 1054-1058: the tones of the events whose onset is within half a step
\* of the elapsed time read
MelodyEventsAt(part, elapsed) ==
  LET mel == song_parts[part].melody
      timings == melody_timings(mel)
      Dist(a, b) == IF a >= b THEN a - b ELSE b - a
  IN  { j \in 1..Len(mel) :
          /\ 2 * Dist(timings[j], elapsed) < step_duration
          /\ mel[j].note # NoNote }
MelodyTriggers(part, elapsed) ==
  LET mel == song_parts[part].melody
  IN  { MelodyKey(NoteFreq(mel[i].note), mel[i].dur, tempo, current_genre) :
          i \in MelodyEventsAt(part, elapsed) }

\* a test that never skips (C3 is compared against it)
SameStep_Never(step, last) == FALSE
\* the test of lines 1048 / 1137 that skips a step already processed
SameStep(step, last) == step = last

\* play_melody_part, lines 1038-1057: one iteration up to the play_sound calls
Melody_Poll ==
  /\ pc["melody"] = "loop"
  /\ LoopCondition(stop_event)
  /\ state_lock = "free"
  /\ current_part # 0
  /\ current_step' = ReadStep(current_step)
  /\ ~SameStep(current_step, last_step["melody"])
  /\ last_step' = [last_step EXCEPT !["melody"] = current_step]
  /\ AfterRead("melody", current_part, MelodyTriggers(current_part, current_elapsed))
  /\ melody_fired' =
       IF MelodyEventsAt(current_part, current_elapsed) = {}
         THEN melody_fired
         ELSE [ part |-> current_part,
                events |-> MelodyEventsAt(current_part, current_elapsed) ]
  /\ UNCHANGED << song_timing, vol_vars, current_genre, tempo, gm_vars, tone_call, mixer_ok, tone_cache, drum_sounds,
                  channels, host_pc, song_parts, start_event, stop_event,
                  current_part_index, current_part, current_elapsed,
                  current_section_sounds, elapsed_in_section, last_chord_step,
                  last_voicing, current_pattern, pattern_section >>

\* lines 1142-1148: the drum sounds of the step
DrumTriggers(part, step) ==
  LET step_in_bar == step % steps_per_bar
  IN  { DrumSound(type, tempo, current_genre) :
          type \in { d \in DrumTypes :
                       /\ song_parts[part].drums[d][step_in_bar + 1] = 1
                       /\ d \in drum_sounds } }

\* play_drum_part, lines 1128-1148: one iteration up to the play_sound calls
Drum_Poll ==
  /\ pc["drum"] = "loop"
  /\ LoopCondition(stop_event)
  /\ state_lock = "free"
  /\ current_part # 0
  /\ current_step' = ReadStep(current_step)
  /\ ~SameStep(current_step, last_step["drum"])
  /\ last_step' = [last_step EXCEPT !["drum"] = current_step]
  /\ AfterRead("drum", current_part, DrumTriggers(current_part, current_step))
  /\ UNCHANGED << melody_fired, song_timing, vol_vars, current_genre, tempo, gm_vars, tone_call, mixer_ok, tone_cache, drum_sounds,
                  channels, host_pc, song_parts, start_event, stop_event,
                  current_part_index, current_part, current_elapsed,
                  current_section_sounds, elapsed_in_section, last_chord_step,
                  last_voicing, current_pattern, pattern_section >>

\* the play_sound calls of an iteration (lines 973-979), then the lock is
\* released (the end of the with block) and the worker sleeps
Consumer_Play(w) ==
  /\ pc[w] = "play"
  /\ channels' = ChannelsAfterPlay(channels, pending.sounds, pending.part)
  /\ current_section_sounds' = RegisteredAfterPlay(current_section_sounds, pending.sounds)
  /\ pending' = NoPending
  /\ state_lock' = "free"
  /\ pc' = [pc EXCEPT ![w] = "loop"]
  /\ UNCHANGED << melody_fired, song_timing, vol_vars, current_genre, tempo, gm_vars, tone_call, mixer_ok, tone_cache, drum_sounds,
                  host_pc, song_parts, start_event, stop_event, current_step,
                  current_part_index, current_part, current_elapsed,
                  elapsed_in_section, last_step, last_chord_step, last_voicing,
                  current_pattern, last_trigger, pattern_section >>

\* ------------------------------------------------------------ play_chord_part
\* line 1079: the pattern is chosen anew on an iteration that reads a step
\* that is a multiple of 64
RerollsPattern(step) == step % 64 = 0
\* line 1088: the iteration stops here when the 8-step block is the one of
\* the last chord played
SameBlock(step, last) == step \div 8 = last
\* line 1093 (a current_pattern of None raises at the subscript, and the
\* handler of line 1118 passes)
PatternActive(g, pattern, pattern_step) ==
  \/ pattern_step = 0
  \/ /\ pattern # 0
     /\ harmony_patterns(g)[pattern][pattern_step + 1] = 1
\* lines 1094-1097
ChordDegreeAt(prog, step) == prog[((step \div 8) % Len(prog)) + 1]
\* a single draw with no comparison (C7 is compared against it)
VoicingDraws_NoRedraw(root, last, draws) == get_chord_notes(root, draws)
\* lines 1100-1103: the voicings the re-draw loop can leave with
VoicingDraws(root, last, draws) ==
  { v \in get_chord_notes(root, draws) : v # last }
\* the loop's possible results for each degree 1..7 and each voicing of that
\* degree as the last one played, any of the six voicings being drawn
RedrawTable ==
  [ d \in 1..7 |->
      [ last \in ChordVoicings[d] |->
          VoicingDraws(major_scale[d], last, DOMAIN VoicingIndices) ] ]
\* lines 1109-1112
HarmonyDuration(g) ==
  IF g \in {"funk", "electronic"} THEN beat_duration ELSE beat_duration * 2
\* the keys of the three generate_harmony_tone calls of line 1113
HarmonyKeys(chord_notes, g, t) ==
  [ k \in 1..3 |-> HarmonyKey(chord_notes[k], HarmonyDuration(g), t, 1536) ]

\* play_chord_part, lines 1069-1117: one iteration up to the play_sound
\* calls. generate_harmony_tone returns None without the mixer (line 503),
\* and then nothing is cached or played. V and P bound the draws: the voicing
\* indices and the pattern indices random may return.
Chord_Poll(V, P) ==
  /\ pc["chord"] = "loop"
  /\ LoopCondition(stop_event)
  /\ state_lock = "free"
  /\ current_part # 0
  /\ current_step' = ReadStep(current_step)
  /\ LET step == current_step
         part == current_part
     IN  \E p \in P :
           LET pattern == IF RerollsPattern(step) THEN p ELSE current_pattern
           IN  /\ current_pattern' = pattern
               /\ pattern_section' = IF RerollsPattern(step) THEN part ELSE pattern_section
               /\ IF ~SameBlock(step, last_chord_step)
                     /\ PatternActive(current_genre, pattern, step % 16)
                    THEN LET chord_degree == ChordDegreeAt(song_parts[part].progression, step)
                             root_note == major_scale[chord_degree]
                         IN  \E chord_notes \in VoicingDraws(root_note, last_voicing, V) :
                               LET keys == HarmonyKeys(chord_notes, current_genre, tempo)
                               IN  /\ last_voicing' = chord_notes
                                   /\ last_chord_step' = step \div 8
                                   /\ tone_cache' = IF mixer_ok
                                                      THEN CacheAfterCalls(tone_cache, keys)
                                                      ELSE tone_cache
                                   /\ AfterRead("chord", part,
                                                IF mixer_ok THEN SeqToSet(keys) ELSE {})
                    ELSE /\ UNCHANGED << last_voicing, last_chord_step, tone_cache >>
                         /\ AfterRead("chord", part, {})
  /\ UNCHANGED << melody_fired, song_timing, vol_vars, current_genre, tempo, gm_vars, tone_call, mixer_ok, drum_sounds,
                  channels, host_pc, song_parts, start_event, stop_event,
                  current_part_index, current_part, current_elapsed,
                  current_section_sounds, elapsed_in_section, last_step >>

\* ------------------------------------------------- play_song after the start
\* line 1167
PlaySong_SetStart ==
  /\ host_pc = "started"
  /\ start_event' = TRUE
  /\ host_pc' = "waiting"
  /\ UNCHANGED << melody_fired, song_timing, vol_vars, current_genre, tempo, gm_vars, tone_call, mixer_ok, tone_cache, drum_sounds,
                  channels, song_parts, stop_event, current_step,
                  current_part_index, current_part, current_elapsed, state_lock,
                  current_section_sounds, pc, elapsed_in_section, last_step,
                  last_chord_step, last_voicing, current_pattern, pending,
                  last_trigger, pattern_section >>

\* lines 1170-1174 and 963-970: the wait loop sees stop_event, and
\* stop_all_section_sounds stops and removes the sounds of its copy
PlaySong_CleanupStop ==
  /\ host_pc = "waiting"
  /\ stop_event
  /\ channels' = ChannelsAfterStop(channels, current_section_sounds)
  /\ current_section_sounds' = IF mixer_ok THEN {} ELSE current_section_sounds
  /\ host_pc' = "clear"
  /\ UNCHANGED << melody_fired, song_timing, vol_vars, current_genre, tempo, gm_vars, tone_call, mixer_ok, tone_cache, drum_sounds,
                  song_parts, start_event, stop_event, current_step,
                  current_part_index, current_part, current_elapsed, state_lock,
                  pc, elapsed_in_section, last_step, last_chord_step, last_voicing,
                  current_pattern, pending, last_trigger, pattern_section >>

\* line 971, then the sleep of line 1175
PlaySong_CleanupClear ==
  /\ host_pc = "clear"
  /\ current_section_sounds' = {}
  /\ host_pc' = "sleep"
  /\ UNCHANGED << melody_fired, song_timing, vol_vars, current_genre, tempo, gm_vars, tone_call, mixer_ok, tone_cache, drum_sounds,
                  channels, song_parts, start_event, stop_event, current_step,
                  current_part_index, current_part, current_elapsed, state_lock,
                  pc, elapsed_in_section, last_step, last_chord_step, last_voicing,
                  current_pattern, pending, last_trigger, pattern_section >>

\* lines 1178-1181: pygame.mixer.stop() silences every channel and play_song
\* returns; no thread is joined. Without the mixer the call raises.
PlaySong_Return ==
  /\ host_pc = "sleep"
  /\ channels' = {}
  /\ host_pc' = IF mixer_ok THEN "returned" ELSE "mixer_error"
  /\ UNCHANGED << melody_fired, song_timing, vol_vars, current_genre, tempo, gm_vars, tone_call, mixer_ok, tone_cache, drum_sounds,
                  song_parts, start_event, stop_event, current_step,
                  current_part_index, current_part, current_elapsed, state_lock,
                  current_section_sounds, pc, elapsed_in_section, last_step,
                  last_chord_step, last_voicing, current_pattern, pending,
                  last_trigger, pattern_section >>

\* ------------------------------------------------------------ the environment
\* stop_all_sounds (lines 1188-1211), called by the game's clean_up while the
\* music thread is alive (play_song composing, pre-rendering or playing).
\* self has no attribute stop_event (it is a local of
\* play_song) and none named stop_all_section_sounds, so both hasattr tests
\* fail: the call stops the mixer's channels and clears self.drum_sounds.
StopAllSounds ==
  /\ host_pc \in {"idle", "started", "waiting"}
  /\ drum_sounds # {}
  /\ channels' = IF mixer_ok THEN {} ELSE channels
  /\ drum_sounds' = {}
  /\ UNCHANGED << melody_fired, song_timing, vol_vars, current_genre, tempo, gm_vars, tone_call, mixer_ok, tone_cache, host_pc,
                  song_parts, start_event, stop_event, current_step,
                  current_part_index, current_part, current_elapsed, state_lock,
                  current_section_sounds, pc, elapsed_in_section, last_step,
                  last_chord_step, last_voicing, current_pattern, pending,
                  last_trigger, pattern_section >>

\* main.py, cleanup_pygame (lines 60-66): pygame.mixer.quit() at exit, while
\* the daemon threads may still run
MixerQuit ==
  /\ mixer_ok
  /\ mixer_ok' = FALSE
  /\ channels' = {}
  /\ UNCHANGED << melody_fired, song_timing, vol_vars, current_genre, tempo, gm_vars, tone_call, tone_cache, drum_sounds, host_pc,
                  song_parts, start_event, stop_event, current_step,
                  current_part_index, current_part, current_elapsed, state_lock,
                  current_section_sounds, pc, elapsed_in_section, last_step,
                  last_chord_step, last_voicing, current_pattern, pending,
                  last_trigger, pattern_section >>

\* ------------------------------------------------- play_song's durations
\* lines 884-890: the genre and the tempo are drawn, and self.beat_duration
\* and self.step_duration follow from the tempo
PlaySong_SetTempo(G) ==
  /\ host_pc = "idle"
  /\ song_timing = NoTiming
  /\ \E g \in G : \E t \in tempo_range(g) :
       /\ current_genre' = g
       /\ tempo' = t
       /\ song_timing' = [ NoTiming EXCEPT !.beat = BeatSeconds(t),
                                           !.self_step = SelfStepSeconds(BeatSeconds(t)) ]
  /\ UNCHANGED << vol_vars, gm_vars, seq_vars, tone_call >>

\* lines 933-936: the timing constants of the sequencer
PlaySong_TimingConstants ==
  /\ host_pc = "idle"
  /\ song_timing.beat # NotComputed
  /\ song_timing.section = NotComputed
  /\ song_timing' = [ song_timing EXCEPT
                        !.step = StepSeconds(song_timing.beat),
                        !.section = SectionSeconds(StepSeconds(song_timing.beat)) ]
  /\ UNCHANGED << vol_vars, current_genre, tempo, gm_vars, seq_vars, tone_call >>

\* ---------------------------------------------------- generate_song_structure
\* the tags of a plan, in order
SectionTags(parts) == [ k \in 1..Len(parts) |-> parts[k].section ]

\* generate_song_structure (lines 811-865) as play_song calls it (line 893),
\* the whole plan: a template is drawn, every tag of it gets a progression, a
\* melody and a drum style, and one part is appended for each element of the
\* template
GenerateSongStructure(G) ==
  /\ host_pc = "idle"
  /\ song_parts = << >>
  /\ \E g \in G : \E t \in SeqTempos(g) : \E structure \in structures(g) :
       \E prog \in [ SeqToSet(structure) -> UNION { SeqProgs(tag) : tag \in SeqToSet(structure) } ] :
       \E style \in [ SeqToSet(structure) -> drum_styles(g) ] :
         /\ \A tag \in DOMAIN prog : prog[tag] \in SeqProgs(tag)
         /\ current_genre' = g
         /\ tempo' = t
         /\ song_parts' =
              [ k \in 1..Len(structure) |->
                  SectionPlan(structure[k], prog[structure[k]], g, t,
                              DrumStyleOf(structure, k, style)) ]
  /\ UNCHANGED << melody_fired, song_timing, vol_vars, gm_vars, tone_call, mixer_ok, tone_cache,
                  drum_sounds, channels, host_pc, start_event, stop_event,
                  current_step, current_part_index, current_part,
                  current_elapsed, state_lock, current_section_sounds, pc,
                  elapsed_in_section, last_step, last_chord_step, last_voicing,
                  current_pattern, pending, last_trigger, pattern_section >>

\* ------------------------------------------------- set_volume and set_muted
\* the mixer's channels (pygame.mixer.set_num_channels(32), line 18)
MaxChannels == 2
Channels == 1..MaxChannels
\* the volumes the game passes, in hundredths
VolumeInputs == {-10, 30, 100, 120}
\* line 372: max(0.0, min(1.0, volume))
ClampVolume(v) == IF v < 0 THEN 0 ELSE IF v > 100 THEN 100 ELSE v
\* lines 373 and 873: 0.0 if self.is_muted else self.volume
ActualVolume(muted, v) == IF muted THEN 0 ELSE v
\* lines 376-379: the volume is set on the channels that are busy
ChannelsAtVolume(actual_volume) ==
  [ c \in Channels |->
      IF chan[c].busy THEN [chan[c] EXCEPT !.vol = actual_volume] ELSE chan[c] ]

\* set_volume (lines 370-379), called by the game's thread; the call is taken
\* as one step
SetVolume(v) ==
  /\ mixer_ok
  /\ volume' = ClampVolume(v)
  /\ chan' = ChannelsAtVolume(ActualVolume(is_muted, ClampVolume(v)))
  /\ UNCHANGED << is_muted, ps_pc, ps_chan, current_genre, tempo, gm_vars,
                  seq_vars, tone_call, song_timing >>

\* set_muted (lines 381-384), called by the game's thread; the call is taken
\* as one step
SetMuted(muted) ==
  /\ mixer_ok
  /\ is_muted' = muted
  /\ volume' = ClampVolume(volume)
  /\ chan' = ChannelsAtVolume(ActualVolume(muted, ClampVolume(volume)))
  /\ UNCHANGED << ps_pc, ps_chan, current_genre, tempo, gm_vars, seq_vars,
                  tone_call, song_timing >>

\* line 871: pygame.mixer.find_channel(True) gives an idle channel, or with
\* none idle a busy one
FindChannel ==
  IF \E c \in Channels : ~chan[c].busy
    THEN { c \in Channels : ~chan[c].busy }
    ELSE Channels

\* play_sound, lines 869-873, in a consumer worker's thread: the channel is
\* found and its volume set from is_muted and volume
PlaySound_SetVolume ==
  /\ ps_pc = "idle"
  /\ mixer_ok
  /\ \E c \in FindChannel :
       /\ ps_chan' = c
       /\ chan' = [chan EXCEPT ![c].vol = ActualVolume(is_muted, volume)]
  /\ ps_pc' = "play"
  /\ UNCHANGED << volume, is_muted, current_genre, tempo, gm_vars, seq_vars,
                  tone_call, song_timing >>

\* play_sound, line 874: channel.play(sound)
PlaySound_Play ==
  /\ ps_pc = "play"
  /\ chan' = [chan EXCEPT ![ps_chan].busy = TRUE]
  /\ ps_chan' = 0
  /\ ps_pc' = "idle"
  /\ UNCHANGED << volume, is_muted, current_genre, tempo, gm_vars, seq_vars,
                  tone_call, song_timing >>

\* the sound of a channel ends
Channel_Finish(c) ==
  /\ chan[c].busy
  /\ ps_chan # c
  /\ chan' = [chan EXCEPT ![c].busy = FALSE]
  /\ UNCHANGED << volume, is_muted, ps_pc, ps_chan, current_genre, tempo,
                  gm_vars, seq_vars, tone_call, song_timing >>

\* lines 366-367, and the mixer's channels after pygame.mixer.init()
InitVolume ==
  /\ volume = 50
  /\ is_muted = FALSE
  /\ chan = [ c \in Channels |-> [busy |-> FALSE, vol |-> 100] ]
  /\ ps_pc = "idle"
  /\ ps_chan = 0

\* ------------------------------------------------- exceptions in the workers
\* An exception raised inside an iteration of a worker loop. What becomes of
\* it is decided by the handlers the loops have: update_playback_state (lines
\* 992-1031) and play_melody_part (lines 1033-1059) have none around their
\* iteration, play_drum_part catches KeyError and AttributeError only (line
\* 1149), play_chord_part catches everything (line 1118).
ExceptionKinds == {"KeyError", "AttributeError", "error"}
Handles(w, kind) ==
  CASE w = "chord" -> TRUE
    [] w = "drum"  -> kind \in {"KeyError", "AttributeError"}
    [] OTHER       -> FALSE
\* The iteration is abandoned. A handled exception leaves the worker in its
\* loop; an unhandled one ends the thread's function. Either way a with
\* block the worker was in releases state_lock, and the sounds it had not
\* yet handed to play_sound are not played.
Worker_Raise(w) ==
  /\ pc[w] \in {"loop", "play", "clear", "advance"}
  /\ ~stop_event
  /\ \E kind \in ExceptionKinds :
       pc' = [pc EXCEPT ![w] = IF Handles(w, kind)
                                 THEN (IF w = "timing" THEN pc[w] ELSE "loop")
                                 ELSE "dead"]
  /\ state_lock' = IF state_lock = w THEN "free" ELSE state_lock
  /\ pending' = IF state_lock = w THEN NoPending ELSE pending
  /\ UNCHANGED << melody_fired, song_timing, vol_vars, current_genre, tempo, gm_vars, tone_call, mixer_ok, tone_cache,
                  drum_sounds, channels, host_pc, song_parts, start_event,
                  stop_event, current_step, current_part_index, current_part,
                  current_elapsed, current_section_sounds, elapsed_in_section,
                  last_step, last_chord_step, last_voicing, current_pattern,
                  last_trigger, pattern_section >>

\* =========================================================================
\* Specifications
\* =========================================================================
\* MusicGenerator.__init__ (lines 248-368) and no song started yet
InitGenerator ==
  /\ current_genre = ""
  /\ tempo = 0
  /\ mixer_ok = TRUE
  /\ tone_cache = << >>
  /\ drum_sounds = {}
  /\ channels = {}
InitNoMelody ==
  /\ gm_pc = "idle"
  /\ progression = << >>
  /\ melody = EmptyMelody
  /\ current_beat = 0
  /\ last_note = NoNote
  /\ repeated_notes_count = 0
  /\ phrase_length = 0
InitNoSong ==
  /\ host_pc = "idle"
  /\ song_parts = << >>
  /\ start_event = FALSE
  /\ stop_event = FALSE
  /\ current_step = 0
  /\ current_part_index = 0
  /\ current_part = 0
  /\ current_elapsed = 0
  /\ state_lock = "free"
  /\ current_section_sounds = {}
  /\ pc = [ w \in Workers |-> "none" ]
  /\ elapsed_in_section = 0
  /\ last_step = [ w \in {"melody", "drum"} |-> -1 ]
  /\ last_chord_step = -1
  /\ last_voicing = << >>
  /\ current_pattern = 0
  /\ pending = NoPending
  /\ last_trigger = [ w \in Consumers |-> <<0, -1>> ]
  /\ pattern_section = 0
  /\ melody_fired = NoneFired
  /\ tone_call = [ th \in Callers |-> NoCall ]
  /\ InitVolume
  /\ song_timing = NoTiming

Init == InitGenerator /\ InitNoMelody /\ InitNoSong

\* play_song with its four workers, every interleaving of the five threads,
\* the clock read on a coarse grid
Next ==
  \/ PlaySong_Compose(SeqGenres, {1})
  \/ PlaySong_SetStart
  \/ PlaySong_CleanupStop
  \/ PlaySong_CleanupClear
  \/ PlaySong_Return
  \/ Timing_Update(SeqGridSteps * step_duration)
  \/ Timing_StopSectionSounds
  \/ Timing_ClearAndCount
  \/ Timing_NextSection
  \/ Timing_Finish
  \/ \E w \in Consumers : Consumer_Start(w)
  \/ \E w \in Consumers : Consumer_Exit(w)
  \/ \E w \in Consumers : Consumer_Play(w)
  \/ Melody_Poll
  \/ Chord_Poll(SeqVoicings, SeqPatterns)
  \/ Drum_Poll

Spec == Init /\ [][Next]_vars

\* The same song with the environment: the game calling stop_all_sounds and
\* the mixer being shut down. The harmony worker is not scheduled.
NextEnv ==
  \/ PlaySong_Compose(SeqGenres, {1})
  \/ PlaySong_ComposeFails
  \/ PlaySong_SetStart
  \/ PlaySong_CleanupStop
  \/ PlaySong_CleanupClear
  \/ PlaySong_Return
  \/ Timing_Update(SeqGridSteps * step_duration)
  \/ Timing_StopSectionSounds
  \/ Timing_ClearAndCount
  \/ Timing_NextSection
  \/ Timing_Finish
  \/ \E w \in {"melody", "drum"} : Consumer_Start(w)
  \/ \E w \in {"melody", "drum"} : Consumer_Exit(w)
  \/ \E w \in {"melody", "drum"} : Consumer_Play(w)
  \/ Melody_Poll
  \/ Drum_Poll
  \/ StopAllSounds
  \/ MixerQuit

SpecEnv == Init /\ [][NextEnv]_vars

\* The song with exceptions raised in the iterations of the timing authority
\* and of the melody and percussion workers. The harmony worker is not
\* scheduled.
NextFault ==
  \/ PlaySong_Compose(SeqGenres, {1})
  \/ PlaySong_SetStart
  \/ PlaySong_CleanupStop
  \/ PlaySong_CleanupClear
  \/ PlaySong_Return
  \/ Timing_Update(SeqGridSteps * step_duration)
  \/ Timing_StopSectionSounds
  \/ Timing_ClearAndCount
  \/ Timing_NextSection
  \/ Timing_Finish
  \/ \E w \in {"melody", "drum"} : Consumer_Start(w)
  \/ \E w \in {"melody", "drum"} : Consumer_Exit(w)
  \/ \E w \in {"melody", "drum"} : Consumer_Play(w)
  \/ Melody_Poll
  \/ Drum_Poll
  \/ \E w \in {"timing", "melody", "drum"} : Worker_Raise(w)
SpecFault == Init /\ [][NextFault]_vars

\* The game's thread calling set_volume and set_muted while a consumer
\* worker's play_sound calls run
NextMute ==
  \/ \E v \in VolumeInputs : SetVolume(v)
  \/ \E muted \in BOOLEAN : SetMuted(muted)
  \/ PlaySound_SetVolume
  \/ PlaySound_Play
  \/ \E c \in Channels : Channel_Finish(c)
SpecMute == Init /\ [][NextMute]_vars

\* generate_song_structure for every genre
NextPlan == GenerateSongStructure(Genres)
SpecPlan == Init /\ [][NextPlan]_vars

\* play_song's durations for every genre and every tempo of its range
NextTempo == PlaySong_SetTempo(Genres) \/ PlaySong_TimingConstants
SpecTempo == Init /\ [][NextTempo]_vars

\* The harmony worker alone with the timing authority, the clock read every
\* ChordGridSteps steps, the harmony pattern being the genre's third one
NextChord ==
  \/ PlaySong_Compose(SeqGenres, {1})
  \/ PlaySong_SetStart
  \/ PlaySong_CleanupStop
  \/ PlaySong_CleanupClear
  \/ PlaySong_Return
  \/ Timing_Update(ChordGridSteps * step_duration)
  \/ Timing_StopSectionSounds
  \/ Timing_ClearAndCount
  \/ Timing_NextSection
  \/ Timing_Finish
  \/ Consumer_Start("chord")
  \/ Consumer_Exit("chord")
  \/ Consumer_Play("chord")
  \/ Chord_Poll(SeqVoicings, {3})
SpecChord == Init /\ [][NextChord]_vars

\* The song with the timing thread and the melody worker only, the clock read
\* every MelodyGridUnits units of 1/(2 * tempo) s during the first steps of a
\* section (a step is step_duration = 30 units): the worker can see a step at
\* any of the readings taken in it.
NextOnset ==
  \/ PlaySong_Compose(SeqGenres, {1})
  \/ PlaySong_SetStart
  \/ PlaySong_CleanupStop
  \/ PlaySong_CleanupClear
  \/ PlaySong_Return
  \/ Timing_UpdateAt(OnsetReadings(elapsed_in_section))
  \/ Timing_StopSectionSounds
  \/ Timing_ClearAndCount
  \/ Timing_NextSection
  \/ Timing_Finish
  \/ Consumer_Start("melody")
  \/ Consumer_Exit("melody")
  \/ Consumer_Play("melody")
  \/ Melody_Poll
SpecOnset == Init /\ [][NextOnset]_vars

\* The song under fair scheduling: every thread that can take a step
\* eventually takes one (the operating system's scheduler runs every runnable
\* thread, and a lock that is released is eventually acquired by each waiter;
\* the sleeps of the loops are finite).
Fairness ==
  /\ WF_vars(PlaySong_SetStart)
  /\ \A w \in Consumers :
       /\ WF_vars(Consumer_Start(w))
       /\ WF_vars(Consumer_Play(w))
       /\ WF_vars(Consumer_Exit(w))
\* every interleaving of the five threads, the clock read once in each section
\* and again at its end
NextLive ==
  \/ PlaySong_Compose(SeqGenres, {1})
  \/ PlaySong_SetStart
  \/ PlaySong_CleanupStop
  \/ PlaySong_CleanupClear
  \/ PlaySong_Return
  \/ Timing_Update(section_duration)
  \/ Timing_StopSectionSounds
  \/ Timing_ClearAndCount
  \/ Timing_NextSection
  \/ Timing_Finish
  \/ \E w \in Consumers : Consumer_Start(w)
  \/ \E w \in Consumers : Consumer_Exit(w)
  \/ \E w \in Consumers : Consumer_Play(w)
  \/ Melody_Poll
  \/ Chord_Poll(SeqVoicings, SeqPatterns)
  \/ Drum_Poll
SpecLive == Init /\ [][NextLive]_vars /\ Fairness

\* The timing thread is scheduled too and its clock advances (a section's
\* end is eventually read), and play_song's own thread goes on after its
\* sleeps.
TimingFairness ==
  /\ WF_vars(Timing_StopSectionSounds)
  /\ WF_vars(Timing_ClearAndCount)
  /\ WF_vars(Timing_NextSection)
  /\ WF_vars(Timing_Finish)
HostFairness ==
  /\ WF_vars(PlaySong_CleanupStop)
  /\ WF_vars(PlaySong_CleanupClear)
  /\ WF_vars(PlaySong_Return)
SpecFinish ==
  Init /\ [][NextLive]_vars /\ Fairness /\ TimingFairness /\ HostFairness

\* generate_melody called by generate_song_structure (line 827) after
\* play_song has set the genre and the tempo: every genre, the ends of its
\* tempo range, the progressions of two section tags (between them every
\* degree but 2 and 7 opens a chord span), every draw.
MelodyTags == {"intro", "bridge"}
MelodyTempos(g) ==
  { t \in tempo_range(g) : \/ \A u \in tempo_range(g) : t <= u
                           \/ \A u \in tempo_range(g) : t >= u }
InitMelody ==
  /\ current_genre \in Genres
  /\ tempo \in MelodyTempos(current_genre)
  /\ progression \in UNION { section_progressions(tag) : tag \in MelodyTags }
  /\ mixer_ok = TRUE
  /\ tone_cache = << >>
  /\ drum_sounds = DrumTypes
  /\ channels = {}
  /\ gm_pc = "idle"
  /\ melody = EmptyMelody
  /\ current_beat = 0
  /\ last_note = NoNote
  /\ repeated_notes_count = 0
  /\ phrase_length = 0
  /\ InitNoSong
NextMelody == GM_Start \/ GM_Rest \/ GM_Note \/ GM_Return
SpecMelody == InitMelody /\ [][NextMelody]_vars

\* The tone cache with two callers that may overlap: the music thread
\* pre-rendering the next song while the harmony worker of the song that just
\* ended (which play_song does not join) is still in an iteration. Earlier
\* songs have left the cache empty or within CacheSlack entries of its cap.
InitCache ==
  /\ current_genre = "chill"
  /\ tempo = CallTempo
  /\ mixer_ok = TRUE
  /\ \E n \in {0} \cup ((max_cache_size - CacheSlack)..max_cache_size) :
       tone_cache = [ k \in EarlierKeys(n) |-> k ]
  /\ drum_sounds = DrumTypes
  /\ channels = {}
  /\ InitNoMelody
  /\ InitNoSong
NextCache ==
  \/ \E th \in Callers : Tone_Call(th)
  \/ \E th \in Callers : Tone_Lookup(th)
  \/ \E th \in Callers : Tone_CheckSize(th)
  \/ \E th \in Callers : Tone_Store(th)
SpecCache == InitCache /\ [][NextCache]_vars

\* The music thread's pre-render requests while the game's clean_up calls
\* stop_all_sounds
NextCacheStop ==
  \/ Tone_Call("host")
  \/ Tone_Lookup("host")
  \/ Tone_CheckSize("host")
  \/ Tone_Store("host")
  \/ StopAllSounds
SpecCacheStop == InitCache /\ [][NextCacheStop]_vars

\* =========================================================================
\* Properties
\* =========================================================================

\* C1 -- once a section is the current one, no sound that was triggered for
\* an earlier section is still on a channel: every sounding channel carries a
\* sound of the current section. (Stated of Spec; it does not hold.)
C1_OutgoingSectionSilenced ==
  \A c \in channels : c.part = current_part

\* C2 -- a step that is a call of stop_all_sounds leaves the song's stop
\* signal set. (Stated of SpecEnv; it does not hold.)
C2_StopAllSoundsSetsStopSignal ==
  [][StopAllSounds => stop_event']_vars

\* C3 -- whenever a consumer worker goes on to play the sounds of a step, the
\* <<section, step>> it read differs from the one of its previous triggering
\* iteration: no worker triggers twice within one step of a section.
C3_TriggerOncePerStep ==
  [][\A w \in Consumers :
       (pc[w] # "play" /\ pc'[w] = "play") => last_trigger'[w] # last_trigger[w]]_vars
\* every consumer has triggered on the step that is still current and is free
\* to poll again
C3_Witness ==
  /\ ~stop_event
  /\ state_lock = "free"
  /\ \A w \in Consumers :
       pc[w] = "loop" /\ last_trigger[w] = <<current_part, current_step>>

\* C4 -- the tone cache never holds more than max_cache_size entries, also
\* when calls of the tone generators overlap. (Stated of SpecCache; it does
\* not hold.)
C4_CacheWithinCap ==
  CacheLen(tone_cache) <= max_cache_size

\* C5 -- the durations of the events of a melody generate_melody has returned
\* add up to the section's duration, 64 steps. (Stated of SpecMelody; it does
\* not hold.)
C5_MelodyFillsSection ==
  gm_pc = "done" => melody.seconds = section_duration

\* C6 -- the harmony pattern changes only when the harmony worker chooses it
\* for a section other than the one it last chose it for: one choice per
\* 64-step span. (Stated of Spec; it does not hold.)
C6_OnePatternChoicePerSection ==
  [][current_pattern' # current_pattern => pattern_section' # pattern_section]_vars

\* C7 -- every degree 1..7 has at least two distinct voicings, so that
\* whichever voicing was played last the re-draw loop can end, and only with
\* a voicing other than the last; and every voicing the harmony worker goes
\* on to play differs from the one it played before.
C7_VoicingDiffersFromLast ==
  [][/\ \A d \in 1..7 :
          /\ Cardinality(ChordVoicings[d]) >= 2
          /\ \A last \in ChordVoicings[d] :
                RedrawTable[d][last] # {} /\ last \notin RedrawTable[d][last]
     /\ (pc["chord"] # "play" /\ pc'["chord"] = "play")
          => last_voicing' # last_voicing]_vars
\* the worker chose a pattern at step 0 of the first section (and so played
\* the chord of block 0) and now plays the chord of a later block, which has
\* the same root
C7_Witness ==
  /\ pc["chord"] = "play"
  /\ current_part = 1
  /\ current_pattern # 0
  /\ last_chord_step > 0
  /\ ChordDegreeAt(song_parts[1].progression, last_chord_step * 8)
       = ChordDegreeAt(song_parts[1].progression, 0)

\* C8 -- the section index is 0 when a song starts, every step leaves it
\* unchanged or adds exactly 1, the section the consumers see never moves
\* back and is, whenever it changes, the one the index names, and the stop
\* signal is set exactly when the timing authority has finished, which is
\* with the index at the number of sections.
C8_SectionsInOrder ==
  [][/\ host_pc' = "started" /\ host_pc = "idle" => current_part_index' = 0
     /\ host_pc # "idle" =>
          /\ current_part_index' \in {current_part_index, current_part_index + 1}
          /\ current_part' \in {current_part, current_part_index' + 1}
          /\ current_part' >= current_part
     /\ current_part_index' <= Len(song_parts')
     /\ current_part' <= Len(song_parts')
     /\ stop_event' <=> pc'["timing"] = "done"
     /\ stop_event' => current_part_index' = Len(song_parts')
     /\ (host_pc' # "idle" /\ current_part_index' = Len(song_parts'))
          => pc'["timing"] \in {"advance", "done"}]_vars
\* the song has finished after every section was current
C8_Witness ==
  /\ stop_event
  /\ Len(song_parts) = MaxParts
  /\ current_part_index = MaxParts
  /\ current_part = MaxParts

\* C9 -- when play_song has returned, none of the four worker threads of its
\* song is still alive. (Stated of Spec; it does not hold.)
C9_WorkersDoneAtReturn ==
  host_pc = "returned" => \A w \in Workers : pc[w] = "done"

\* C10 -- no synthesis call made without the mixer raises into play_song.
\* (Stated of SpecEnv; it does not hold.)
C10_NoSynthesisErrorInPlaySong ==
  host_pc # "synthesis_error"

\* C11 -- no worker thread is ended by an exception raised in one of its
\* iterations. (Stated of SpecFault; it does not hold.)
C11_NoWorkerDiesOfAnException ==
  \A w \in Workers : pc[w] # "dead"

\* C12 -- the ActiveSoundSet is read and changed only under state_lock: while
\* a consumer worker holds state_lock and stays where it is, no other thread
\* changes current_section_sounds. (It does not hold: stop_all_section_sounds
\* runs without the lock.)
C12_SoundSetChangedUnderLock ==
  [][ (state_lock \in Consumers /\ pc'[state_lock] = pc[state_lock])
        => current_section_sounds' = current_section_sounds ]_vars

C14_SilentAfterCleanup ==
  host_pc = "returned" => (channels = {} /\ current_section_sounds = {})

\* C15 -- no sound is audible at a volume other than 0 while is_muted is
\* true: every busy channel then has volume 0. (It does not hold: play_sound
\* sets the channel's volume before the channel is busy.)
C15_MutedMeansSilent ==
  is_muted => \A c \in Channels : chan[c].busy => chan[c].vol = 0

C17_FirstNoteMiddleForOneBeat ==
  (gm_pc # "idle" /\ progression[1] = 1) =>
     LET consonant_notes == get_consonant_notes(1)
     IN  /\ melody.first.note = consonant_notes[(Len(consonant_notes) \div 2) + 1]
         /\ melody.first.dur = beat_duration

\* C18 -- for every tempo the step lasts a quarter of a beat, 60 / tempo / 4
\* seconds, and the section the timing authority uses lasts 64 steps; at 80
\* BPM the beat, the step and the section last 0.75 s, 0.1875 s and 12 s.
C18_StepAndSectionDurations ==
  song_timing.section # NotComputed =>
    /\ SameFraction(song_timing.step, FractionOver(song_timing.beat, 4))
    /\ SameFraction(song_timing.step,
                    FractionOver(FractionOver(Fraction(60, 1), tempo), 4))
    /\ SameFraction(song_timing.section, FractionTimes(64, song_timing.step))
    /\ tempo = 80 =>
         /\ SameFraction(song_timing.beat, Fraction(3, 4))
         /\ SameFraction(song_timing.step, Fraction(3, 16))
         /\ SameFraction(song_timing.section, Fraction(12, 1))
\* the timing constants computed at 80 BPM
C18_Witness ==
  /\ tempo = 80
  /\ song_timing.section # NotComputed

\* C19 -- in a cycle of the timing authority inside a section the computed
\* wait is the time left until the next step boundary, section start +
\* (current_step + 1) * step_duration. (It does not hold: the wait is
\* computed to the boundary of the step already reached.)
C19_WaitUntilNextStep ==
  (pc["timing"] = "loop" /\ current_part # 0 /\ current_elapsed = elapsed_in_section) =>
     WaitTime(current_step, elapsed_in_section)
       = ((current_step + 1) * step_duration) - elapsed_in_section

\* C20 -- once the workers are started no worker synthesizes a sound: every
\* generate_harmony_tone call of the harmony worker finds its key in the
\* cache, which therefore stays as the pre-render phase left it. (It does
\* not hold: the worker asks for keys the pre-render phase never inserts.)
C20_WorkersOnlyHitTheCache ==
  [][ host_pc # "idle" => tone_cache' = tone_cache ]_vars

\* C21 -- on every step the harmony worker has not yet played on and on which
\* the current pattern is active it plays a chord, also when an earlier
\* pattern-active step of the same 8-step block of the section played one:
\* wherever its iteration can run on such a step, the block test lets it
\* through. (Stated of SpecChord; it does not hold.)
C21_ChordOnEveryActiveStep ==
  ( /\ pc["chord"] = "loop"
    /\ ~stop_event
    /\ state_lock = "free"
    /\ current_part # 0
    /\ ~RerollsPattern(current_step)
    /\ PatternActive(current_genre, current_pattern, current_step % 16)
    /\ last_trigger["chord"][1] = current_part
    /\ last_trigger["chord"][2] # current_step )
  => ~SameBlock(current_step, last_chord_step)

\* C22 -- in generate_melody the beat position after every event, rests
\* included, never passes the section's total beats, and the melody ends
\* exactly there. (Stated of SpecMelody; it does not hold.)
C22_NoEventCrossesSectionEnd ==
  /\ current_beat <= total_beats
  /\ gm_pc = "done" => current_beat = total_beats

\* C23 -- a melody never has the same pitch on more than three consecutive
\* note events: when the last note has been repeated twice (the melody being
\* short of its fifth beat, no rest has been appended yet), the next event is
\* not that pitch again. (Stated of SpecMelody; it does not hold.)
C23_AtMostTwoRepeats ==
  [][ ( /\ gm_pc = "loop"
        /\ repeated_notes_count = 2
        /\ current_beat < 5 * OneBeat
        /\ melody' # melody )
      => melody'.last.note # last_note ]_vars

\* C24 -- every note generate_melody appends lies within max_interval scale
\* steps of the note before it (a repeated note lies at none). (Stated of
\* SpecMelody; it does not hold: the interval is counted in positions of the
\* consonant set.)
C24_NotesWithinMaxInterval ==
  [][ ( /\ gm_pc = "loop"
        /\ melody' # melody
        /\ melody'.last.note # NoNote )
      => /\ last_note' - last_note <= max_interval(current_genre)
         /\ last_note - last_note' <= max_interval(current_genre) ]_vars

\* C25 -- every voicing get_chord_notes returns for a root of the major scale
\* has exactly 3 frequencies of the note table and is an arrangement of the
\* triad: its letters are the root's, the third's and the fifth's, one of
\* each. (Stated of the voicing the harmony worker last drew; it does not
\* hold.)
C25_VoicingIsTriad ==
  last_voicing # << >> =>
    /\ Len(last_voicing) = 3
    /\ \A k \in 1..3 : \E n \in 0..20 : NoteFreq(n) = last_voicing[k]
    /\ \E d \in 1..7 :
         VoicingLetters(last_voicing) = SeqToSet(ChordLetters(major_scale[d]))

\* C26 -- with no stop requested from outside, a started song finishes under
\* fair scheduling and an advancing clock: every section of the plan is
\* played, the stop signal is set after the last one, the four workers end
\* and play_song returns.
C26_StartedSongFinishes ==
  (host_pc = "started") ~>
     ( /\ host_pc = "returned"
       /\ stop_event
       /\ current_part_index = Len(song_parts)
       /\ \A w \in Workers : pc[w] = "done" )
\* the song is over: play_song has returned after the last section and every
\* worker has ended
C26_Witness ==
  /\ host_pc = "returned"
  /\ current_part_index = MaxParts
  /\ \A w \in Workers : pc[w] = "done"

\* C27 -- the melody, harmony and percussion workers never write the
\* transport: every step that changes something of a consumer (its position,
\* its last step or block, its voicing or pattern, the sounds it is about to
\* play) while play_song stays where it is leaves the current step, the
\* current section, the elapsed time and the section index unchanged.
C27_ConsumersLeaveTransport ==
  [][ ( /\ host_pc' = host_pc
        /\ \/ \E w \in Consumers : pc'[w] # pc[w]
           \/ last_step' # last_step
           \/ last_chord_step' # last_chord_step
           \/ last_voicing' # last_voicing
           \/ current_pattern' # current_pattern
           \/ pending' # pending )
      => UNCHANGED << current_step, current_part, current_elapsed,
                      current_part_index >> ]_vars
\* every consumer has played on a step of the second section
C27_Witness ==
  /\ current_part = 2
  /\ \A w \in Consumers : last_trigger[w][1] = 2

\* C28 -- the tone cache is append-only: a key that is in the cache stays in
\* it at every step, those of stop_all_sounds and of other callers' requests
\* included, a key the callers ask for keeps the buffer stored for it, and a
\* request that has missed and finds the cache full returns its buffer
\* leaving the cache as it is.
C28_CacheAppendOnly ==
  [][ /\ DOMAIN tone_cache \subseteq DOMAIN tone_cache'
      /\ \A th \in Callers : \A k \in CallKeys(th) :
           k \in DOMAIN tone_cache => tone_cache'[k] = tone_cache[k]
      /\ \A th \in Callers :
           ( /\ tone_call[th].at = "synthesized"
             /\ CacheLen(tone_cache) >= max_cache_size
             /\ tone_call'[th] # tone_call[th] )
           => (tone_call'[th] = NoCall /\ tone_cache' = tone_cache) ]_vars
\* a request has missed on a full cache after stop_all_sounds has run, while
\* keys of earlier songs and a key stored since are held
C28_Witness ==
  /\ CacheLen(tone_cache) >= max_cache_size
  /\ drum_sounds = {}
  /\ \E th \in Callers : tone_call[th].at = "synthesized"
  /\ \E th \in Callers : \E k \in CallKeys(th) : k \in DOMAIN tone_cache

\* C29: during one playthrough of a section no melody event is triggered on
\* two different steps: the events the melody worker triggers in an iteration
\* are none of those it triggered in its previous triggering iteration of the
\* same part.
C29_EventTriggeredOnce ==
  [][ ( /\ pc["melody"] = "loop" /\ pc'["melody"] = "play"
        /\ melody_fired.part = current_part )
      => melody_fired.events \cap melody_fired'.events = {} ]_vars

\* C30: the chord the harmony worker uses on a step is the chord that
\* generate_melody treated as current for the beat containing the step:
\* whenever the worker plays a chord, the degree it took from the progression
\* for its step is the melody's chord of that step's beat.
C30_HarmonyFollowsMelodyChord ==
  (pc["chord"] = "play" /\ last_trigger["chord"][1] # 0) =>
    LET prog == song_parts[last_trigger["chord"][1]].progression
        step == last_trigger["chord"][2]
    IN  ChordDegreeAt(prog, step)
          = CurrentChord(prog, OneBeat * (step \div steps_per_beat))

====
